---------------------------- MODULE Spec2Model ----------------------------
(***************************************************************************)
(* Model of src/api/webhook.ts: the LINE webhook handler, the per-user      *)
(* pending-issue confirmation state machine (generateReply) and the agent   *)
(* loop it falls through to.                                                *)
(*                                                                          *)
(* Text is modelled as a sequence of characters.  TLA+ strings are ASCII,   *)
(* so every character is written as a token: latin letters as themselves    *)
(* ("y"), hiragana as upper-case romaji ("HA"), katakana with a K_ prefix   *)
(* ("K_KI"), kanji with a J_ prefix ("J_NEGA"), small kana with an x.       *)
(* String.prototype.includes is a real substring search on these            *)
(* sequences.                                                               *)
(*                                                                          *)
(* One task is one inbound webhook event.  Every await of the code is a     *)
(* point where other tasks may run, so each action is the synchronous code  *)
(* between two awaits.                                                      *)
(***************************************************************************)
EXTENDS Integers, Sequences, FiniteSets, TLC

\* ---------------------------------------------------------------- bounds
MaxInFlight == 2
MaxTicks == 2
MaxRounds == 2
MaxPages == 3
MaxPageLen == 2

\* ------------------------------------------------------------- constants
Undefined == "undefined"
NoProposal == [present |-> FALSE]

\* 5 * 60 * 1000 ms, the validity window of a pending issue
PENDING_TTL_MS == 5 * 60 * 1000

\* the clock advances in steps of one validity window, so that a stored
\* proposal is seen before, exactly at, and after its expires_at
TickMs == PENDING_TTL_MS

APP_REPO_MAP ==
    ("MarutaGirudo" :> "marta-guild") @@
    ("ManganjiGoshuincho" :> "manganji-stamp") @@
    ("Monohabu" :> "monohub") @@
    ("Oshikatsu" :> "oshi-katsu") @@
    ("MokuhyoTasseibu" :> "mokuhyo-tassei-bu") @@
    ("AchirasamaKaradesu" :> "achirasama") @@
    ("HappyKanteishi" :> "happykantei") @@
    ("ManganjiDotchi" :> "manganji-stamp")

\* APP_REPO_MAP is a plain object literal: a key it does not own is looked
\* up on Object.prototype, whose members are functions or objects (truthy).
ObjectPrototypeKeys ==
    {"constructor", "toString", "toLocaleString", "valueOf",
     "hasOwnProperty", "isPrototypeOf", "propertyIsEnumerable", "__proto__"}

InheritedMember == "[Object.prototype member]"

RegistryValues == {APP_REPO_MAP[k] : k \in DOMAIN APP_REPO_MAP}

yesPatterns ==
    << <<"HA", "I">>, <<"y", "e", "s">>, <<"SO", "U", "SHI", "TE">>,
       <<"O", "J_NEGA", "I">>, <<"J_TSUKU", "xTSU", "TE">>,
       <<"YO", "RO", "SHI", "KU">>, <<"I", "I", "YO">>, <<"E", "E", "YO">> >>

noPatterns ==
    << <<"I", "I", "E">>, <<"n", "o">>, <<"YA", "ME", "TE">>,
       <<"K_KI", "K_xYA", "K_N", "K_SE", "K_RU">>, <<"J_CHIGA", "U">>,
       <<"CHI", "GA", "U">> >>

\* ------------------------------------------------------- pure functions
\* String.prototype.includes
includes(s, p) ==
    \E i \in 1..(Len(s) - Len(p) + 1) : SubSeq(s, i, i + Len(p) - 1) = p

\* patterns.some((p) => userMessage.includes(p))
some(patterns, userMessage) ==
    \E k \in 1..Len(patterns) : includes(userMessage, patterns[k])

isYes(userMessage) == some(yesPatterns, userMessage)

isNo(userMessage) == some(noPatterns, userMessage)

\* APP_REPO_MAP[judgment.app_name]
RepoLookup(app_name) ==
    IF app_name \in DOMAIN APP_REPO_MAP THEN APP_REPO_MAP[app_name]
    ELSE IF app_name \in ObjectPrototypeKeys THEN InheritedMember
    ELSE Undefined

\* if (repo): undefined and the empty string are falsy
Truthy(v) == v # Undefined /\ v # ""

\* mutant: the comparison turned round
Expired_Reversed(pending, t) == t < pending.expires_at

\* Date.now() > pending.expires_at
Expired(pending, t) == t > pending.expires_at

\* mutant: five minutes counted in seconds, not milliseconds
ExpiresAt_Seconds(t) == t + 5 * 60

\* Date.now() + 5 * 60 * 1000
ExpiresAt(t) == t + PENDING_TTL_MS


\* ---------------------------------------------------------------- inputs
\* "はい"
MsgHai == <<"HA", "I">>
\* "いいえ"
MsgIie == <<"I", "I", "E">>
\* "キャンセルお願い" (please cancel): holds a negative and an affirmative token
MsgCancelOnegai == <<"K_KI", "K_xYA", "K_N", "K_SE", "K_RU", "O", "J_NEGA", "I">>
\* "Yes バグ": matching is case-sensitive, so this matches nothing
MsgReport == <<"Y", "e", "s", " ", "K_BA", "K_GU">>

Messages == {MsgHai, MsgIie, MsgCancelOnegai, MsgReport}

\* event.source.userId: a LINE user id, or missing
NoUserId == "(no userId)"
Sources == {"U1", NoUserId}

\* another sender whose source carries no userId either
OtherNoUserId == "(no userId, another sender)"

IdlessSources == {NoUserId, OtherNoUserId}

\* mutant: every sender is keyed by itself
UserIdOf_PerSender(src) == src

\* event.source.userId ?? "unknown"
UserIdOf(src) == IF src \in IdlessSources THEN "unknown" ELSE src

UserIds == {UserIdOf(src) : src \in Sources \cup IdlessSources}

\* event.replyToken
ReplyTokens == {"rt1", "rt2"}

TextEvents ==
    [type : {"text"}, text : Messages, src : Sources, replyToken : ReplyTokens]

\* an event that is not a text message (a sticker, a follow, ...)
OtherEvents ==
    [type : {"sticker"}, text : {<<>>}, src : {"U1"}, replyToken : {"rt1"}]

Events == TextEvents \cup OtherEvents

\* What JSON.parse can return for the classifier's text.
Judgment(is_issue, app, title, body, manus, confirm) ==
    [json |-> "object", is_issue |-> is_issue, app_name |-> app,
     issue_title |-> title, issue_body |-> body,
     manus_instruction |-> manus, confirm_message |-> confirm]

NotIssue == Judgment(FALSE, Undefined, Undefined, Undefined, Undefined, Undefined)

\* JSON.parse("null")
JsonNull == [NotIssue EXCEPT !.json = "null"]

\* JSON.parse("5"): a value that is no object; its is_issue is undefined
JsonNumber == [NotIssue EXCEPT !.json = "number"]

IssueJudgments ==
    {Judgment(TRUE, "Monohabu", "t1", "b1", "m1", "c1"),
     Judgment(TRUE, "Oshikatsu", "t2", "b2", "m2", "c2"),
     Judgment(TRUE, "UnlistedApp", "t3", "b3", "m3", "c3"),
     Judgment(TRUE, "constructor", "t4", "b4", "m4", "c4")}

\* The classifier's response: its first text block, if any, and whether that
\* text is well-formed JSON (then `value` is what it parses to).
ClassifierResponses ==
    [hasText : {TRUE}, wellFormed : {TRUE},
     value : IssueJudgments \cup {NotIssue, JsonNull}]
    \cup [hasText : {TRUE}, wellFormed : {FALSE}, value : {NotIssue}]
    \cup [hasText : {FALSE}, wellFormed : {FALSE}, value : {NotIssue}]

\* {} : the parse of the default text "{}"; is_issue is undefined (falsy)
EmptyObject == NotIssue

\* judgeIfIssue, after the model call has resolved
judgeIfIssue(response) ==
    IF ~response.hasText THEN EmptyObject
    ELSE IF response.wellFormed THEN response.value
    ELSE NotIssue

\* The blocks of an agent response's content: text, or a tool request with
\* its identifier and tool name.
TextBlock == [type |-> "text", id |-> Undefined, name |-> Undefined]

ToolUse(id, name) == [type |-> "tool_use", id |-> id, name |-> name]

\* block.type === "tool_use"
IsToolUse(block) == block.type = "tool_use"

\* the tool requests of a content, in the order the model emitted them
ToolUses(content) == SelectSeq(content, IsToolUse)

\* response.content.find((b) => b.type === "text") finds a block
HasText(content) == \E i \in DOMAIN content : content[i].type = "text"

\* for (const block of ...) { if (block.type === "tool_use") ... }: the
\* iteration passes over the blocks that are no tool request
RECURSIVE SkipToToolUse(_)
SkipToToolUse(blocks) ==
    IF blocks = <<>> \/ IsToolUse(Head(blocks)) THEN blocks
    ELSE SkipToToolUse(Tail(blocks))

\* The agent model's response: a stop reason and its content.
ToolBatches == {<<ToolUse("tu1", "append_to_page")>>}

AgentResponses ==
    [stop_reason : {"end_turn"}, content : {<<>>, <<TextBlock>>}]
    \cup [stop_reason : {"tool_use"}, content : ToolBatches]

\* How the document store answers one HTTP request: a 2xx response, a 404,
\* a 403, or no response at all (fetch rejects).
StoreResponses == {"ok", "not_found", "forbidden", "throws"}

\* the answers drawn where the agent loop is not the subject
PlainStoreResponses == {"ok", "throws"}

\* ------------------------------------------- the snapshot reader's input
\* The children of the page as the document store holds them: block i has
\* id i, and the block shapes recur along the page.
BlockShapes ==
    <<[type |-> "paragraph", rich_text |-> "text", checked |-> FALSE],
      [type |-> "to_do", rich_text |-> "task", checked |-> TRUE],
      [type |-> "divider", rich_text |-> Undefined, checked |-> FALSE],
      [type |-> "paragraph", rich_text |-> Undefined, checked |-> FALSE],
      [type |-> "image", rich_text |-> Undefined, checked |-> FALSE]>>

StoredBlock(i) ==
    LET shape == BlockShapes[((i - 1) % Len(BlockShapes)) + 1]
    IN  [id |-> i, type |-> shape.type, rich_text |-> shape.rich_text,
         checked |-> shape.checked]

richTextTypes ==
    {"paragraph", "heading_1", "heading_2", "heading_3",
     "bulleted_list_item", "numbered_list_item", "quote", "callout", "toggle"}

\* blockToText: { id, type, text }
blockToText(block) ==
    [id |-> block.id, type |-> block.type,
     text |->
        IF block.type = "to_do"
        THEN <<IF block.checked THEN "[done]" ELSE "[not done]",
               block.rich_text>>
        ELSE IF block.type \in richTextTypes /\ block.rich_text # Undefined
        THEN <<block.rich_text>>
        ELSE IF block.type = "code" /\ block.rich_text # Undefined
        THEN <<block.rich_text>>
        ELSE IF block.type = "divider" THEN <<"---">>
        ELSE <<"(", block.type, "block)">>]

\* The store's pages: page p holds the next pageLens[p] blocks of the page.
\* A cursor is the number of a page; NoCursor is the undefined cursor.
NoCursor == 0

RECURSIVE SumLens(_, _)
SumLens(pageLens, n) ==
    IF n = 0 THEN 0 ELSE SumLens(pageLens, n - 1) + pageLens[n]

PageResults(pageLens, p) ==
    [k \in 1..pageLens[p] |-> StoredBlock(SumLens(pageLens, p - 1) + k)]

\* the response to GET children?page_size=100[&start_cursor=cursor] under
\* the has_more / next_cursor contract
Serve(pageLens, cursor) ==
    LET p == IF cursor = NoCursor THEN 1 ELSE cursor
    IN  [results |-> PageResults(pageLens, p),
         has_more |-> p < Len(pageLens),
         next_cursor |-> IF p < Len(pageLens) THEN p + 1 ELSE NoCursor]

\* mutant: the continuation is dropped
NextCursor_Stop(data) == NoCursor

\* cursor = data.has_more ? data.next_cursor : undefined
NextCursor(data) == IF data.has_more THEN data.next_cursor ELSE NoCursor

\* for (const block of data.results ?? []) blocks.push(blockToText(block))
PushBlocks(blocks, results) ==
    blocks \o [k \in DOMAIN results |-> blockToText(results[k])]

\* ----------------------------------------------------------------- state
VARIABLES
    pendingIssues,  \* the process-wide map userId -> pending issue
    now,            \* Date.now()
    task,           \* per slot, the callback of the event it handles
    lastStored,     \* history: per userId, the proposal most recently
                    \* stored, until the user's entry is next deleted
    replacedOlder,  \* history: that store overwrote a different proposal
    snap,           \* a call of fetchAllBlocks followed page by page
    request         \* a POST to the handler: its events and its response

vars == <<pendingIssues, now, task, lastStored, replacedOlder, snap, request>>

Tasks == 1..MaxInFlight

NoCalls == [github |-> 0, judge |-> 0, fetch |-> 0, agent |-> 0, tool |-> 0]

NoReply == [kind |-> "none", text |-> Undefined, extra |-> Undefined]

Reply(kind, text, extra) == [kind |-> kind, text |-> text, extra |-> extra]

IdleTask ==
    [pc |-> "idle", type |-> "none", replyToken |-> "none",
     userMessage |-> <<>>, src |-> "none", userId |-> "none",
     pending |-> NoProposal, atStart |-> NoProposal, expiredAtStart |-> FALSE,
     judgment |-> NotIssue, stored |-> NoProposal, filed |-> NoProposal,
     replyText |-> NoReply, outcome |-> "none", error |-> "none",
     sent |-> <<>>, calls |-> NoCalls,
     round |-> 0, content |-> <<>>, blocks |-> <<>>, toolResults |-> <<>>,
     nMessages |-> 0, stop_reason |-> "none"]

Proposal(judgment, repo, t) ==
    [present |-> TRUE, app_name |-> judgment.app_name, repo |-> repo,
     issue_title |-> judgment.issue_title, issue_body |-> judgment.issue_body,
     manus_instruction |-> judgment.manus_instruction,
     expires_at |-> ExpiresAt(t)]

\* no call of fetchAllBlocks is being followed
IdleSnapshot ==
    [pc |-> "idle", pages |-> <<>>, cursor |-> NoCursor, blocks |-> <<>>,
     requested |-> <<>>]

InitConversation ==
    /\ pendingIssues = [u \in UserIds |-> NoProposal]
    /\ now = 0
    /\ task = [t \in Tasks |-> IdleTask]
    /\ lastStored = [u \in UserIds |-> NoProposal]
    /\ replacedOlder = [u \in UserIds |-> FALSE]

\* no request is being followed
NoRequest == [pc |-> "none", events |-> <<>>, status |-> "none"]

Init ==
    /\ InitConversation
    /\ snap = IdleSnapshot
    /\ request = NoRequest

\* ------------------------------------------- generateReply, lines 307-340
\* delete pendingIssues[userId]
Delete(store, userId) == [store EXCEPT ![userId] = NoProposal]

\* mutant: a proposal is stored only when the user has none
Store_KeepFirst(store, userId, proposal) ==
    IF store[userId].present THEN store
    ELSE [store EXCEPT ![userId] = proposal]

\* pendingIssues[userId] = {...}
Store(store, userId, proposal) == [store EXCEPT ![userId] = proposal]

\* isYes && pendingIssues[userId], and the else branch of the expiry check:
\* createGitHubIssue is called
TakesCommit(store, userMessage, userId, t) ==
    /\ isYes(userMessage)
    /\ store[userId].present
    /\ ~Expired(store[userId], t)

\* mutant: the expired proposal is not deleted
AfterExpiryCheck_NoDelete(store, userMessage, userId, t) == store

\* the store after the if of lines 315-335, when that if does not return
AfterExpiryCheck(store, userMessage, userId, t) ==
    IF isYes(userMessage) /\ store[userId].present /\ Expired(store[userId], t)
    THEN Delete(store, userId)
    ELSE store

\* mutant: a negative message cancels whether or not a proposal is stored
TakesCancel_IgnoresStore(store, userMessage, userId) == isNo(userMessage)

\* mutant: any message cancels a pending proposal
TakesCancel_AnyMessage(store, userMessage, userId) == store[userId].present

\* isNo && pendingIssues[userId]
TakesCancel(store, userMessage, userId) ==
    isNo(userMessage) /\ store[userId].present

\* what createGitHubIssue is called with
FilingCall(pending) ==
    [present |-> TRUE, repo |-> pending.repo, title |-> pending.issue_title,
     body |-> pending.issue_body]

\* mutant: the entry is deleted before the filing call is awaited
BeforeFiling_Deleted(store, userId) == Delete(store, userId)

\* the store when createGitHubIssue is called and awaited: the entry is
\* still in place (the delete statements come after the await)
BeforeFiling(store, userId) == store

\* mutant: the proposal is kept for a retry when the filing throws
AfterFiling_KeepOnFailure(store, userId, ok) ==
    IF ok THEN Delete(store, userId) ELSE store

\* the store once createGitHubIssue has resolved (ok) or thrown (~ok)
AfterFiling(store, userId, ok) == Delete(store, userId)

\* the reply once createGitHubIssue has resolved (ok) or thrown (~ok)
FilingReply(pending, ok) ==
    IF ok THEN Reply("issue_created", "html_url", pending.manus_instruction)
    ELSE Reply("issue_failed", "GitHub API error", Undefined)

CancelReply == Reply("cancelled", Undefined, Undefined)

\* a callback that has returned: its locals are dead; what is kept is the
\* event it handled (type, replyToken), what became of it ("replied",
\* "error": logged by the catch, "skipped"), the error the catch logged, the
\* reply tokens replies were sent with, the agent rounds it ran and the
\* calls it made
Retired(rec, outcome, error, sent) ==
    [IdleTask EXCEPT !.pc = "done", !.type = rec.type,
                     !.replyToken = rec.replyToken, !.outcome = outcome,
                     !.error = error, !.sent = sent, !.round = rec.round,
                     !.calls = rec.calls]

Finished(t, outcome, error, sent) ==
    [task EXCEPT ![t] = Retired(task[t], outcome, error, sent)]

\* the history variables forget a user's proposal once the map has no entry
\* for that user
Forget(hist, store, userId, none) ==
    [hist EXCEPT ![userId] = IF store[userId].present THEN @ ELSE none]

\* events.map callback up to its first await: a non-text event returns at
\* once; a text event runs generateReply up to createGitHubIssue, to the
\* cancel return, or to the classifier call of judgeIfIssue.
Start(t, ev) ==
    /\ task[t].pc \in {"idle", "done"}
    /\ UNCHANGED now
    /\ IF ev.type # "text"
       THEN /\ task' = [task EXCEPT ![t] =
                   Retired([IdleTask EXCEPT !.type = ev.type,
                                            !.replyToken = ev.replyToken],
                           "skipped", "none", <<>>)]
            /\ UNCHANGED pendingIssues
       ELSE LET userMessage == ev.text
                userId == UserIdOf(ev.src)
                base == [IdleTask EXCEPT
                            !.type = ev.type,
                            !.replyToken = ev.replyToken,
                            !.userMessage = userMessage,
                            !.src = ev.src,
                            !.userId = userId,
                            !.atStart = pendingIssues[userId],
                            !.expiredAtStart =
                                /\ pendingIssues[userId].present
                                /\ now > pendingIssues[userId].expires_at]
                store1 == AfterExpiryCheck(pendingIssues, userMessage, userId, now)
            IN  IF TakesCommit(pendingIssues, userMessage, userId, now)
                THEN /\ task' = [task EXCEPT ![t] =
                            [base EXCEPT
                                !.pc = "github",
                                !.pending = pendingIssues[userId],
                                !.filed = FilingCall(pendingIssues[userId]),
                                !.calls.github = 1]]
                     /\ pendingIssues' = BeforeFiling(pendingIssues, userId)
                ELSE IF TakesCancel(store1, userMessage, userId)
                THEN /\ pendingIssues' = Delete(store1, userId)
                     /\ task' = [task EXCEPT ![t] =
                            [base EXCEPT !.pc = "reply", !.replyText = CancelReply]]
                ELSE /\ pendingIssues' = store1
                     /\ task' = [task EXCEPT ![t] =
                            [base EXCEPT !.pc = "judge", !.calls.judge = 1]]
    /\ lastStored' = Forget(lastStored, pendingIssues', UserIdOf(ev.src), NoProposal)
    /\ replacedOlder' = Forget(replacedOlder, pendingIssues', UserIdOf(ev.src), FALSE)
    /\ UNCHANGED <<snap, request>>

\* mutant: the catch sends an apology with the event's token
Errored_Replies(t, error) ==
    Finished(t, "error", error, Append(task[t].sent, task[t].replyToken))

\* the handler's catch: console.error(error), no reply
Errored(t, error) == Finished(t, "error", error, task[t].sent)

\* createGitHubIssue resolves or throws (lines 327-332)
GithubResolve(t, ok) ==
    /\ task[t].pc = "github"
    /\ pendingIssues' = AfterFiling(pendingIssues, task[t].userId, ok)
    /\ task' = [task EXCEPT ![t].pc = "reply",
                            ![t].replyText = FilingReply(task[t].pending, ok)]
    /\ lastStored' = Forget(lastStored, pendingIssues', task[t].userId, NoProposal)
    /\ replacedOlder' = Forget(replacedOlder, pendingIssues', task[t].userId, FALSE)
    /\ UNCHANGED now
    /\ UNCHANGED <<snap, request>>

\* ------------------------------------------- generateReply, lines 342-359
\* judgment.is_issue, and repo is truthy: the proposal is stored
TakesPropose(judgment) ==
    judgment.is_issue /\ Truthy(RepoLookup(judgment.app_name))

ConfirmReply(judgment) == Reply("confirm", judgment.confirm_message, Undefined)

\* the classifier's model call throws
JudgeThrows(t) ==
    /\ task[t].pc = "judge"
    /\ task' = Errored(t, "classifier call")
    /\ UNCHANGED <<pendingIssues, now, lastStored, replacedOlder>>
    /\ UNCHANGED <<snap, request>>

\* the classifier's model call resolves: judgeIfIssue returns, then either the
\* proposal is stored and confirm_message returned, or fetchAllBlocks is called
JudgeResolve(t, response) ==
    /\ task[t].pc = "judge"
    /\ UNCHANGED now
    /\ LET judgment == judgeIfIssue(response)
           userId == task[t].userId
       IN  IF judgment.json = "null"
           THEN \* judgment.is_issue throws a TypeError
                /\ task' = Errored(t, "TypeError")
                /\ UNCHANGED <<pendingIssues, lastStored, replacedOlder>>
           ELSE IF TakesPropose(judgment)
           THEN LET proposal == Proposal(judgment, RepoLookup(judgment.app_name), now)
                IN  /\ pendingIssues' = Store(pendingIssues, userId, proposal)
                    /\ lastStored' = [lastStored EXCEPT ![userId] = proposal]
                    /\ replacedOlder' = [replacedOlder EXCEPT ![userId] =
                           /\ pendingIssues[userId].present
                           /\ FilingCall(pendingIssues[userId]) # FilingCall(proposal)]
                    /\ task' = [task EXCEPT
                           ![t].pc = "reply", ![t].judgment = judgment,
                           ![t].stored = proposal,
                           ![t].replyText = ConfirmReply(judgment)]
           ELSE /\ task' = [task EXCEPT
                       ![t].pc = "fetch", ![t].judgment = judgment,
                       ![t].calls.fetch = 1]
                /\ UNCHANGED <<pendingIssues, lastStored, replacedOlder>>
    /\ UNCHANGED <<snap, request>>

\* ------------------------------------------- generateReply, lines 361-408
\* fetchAllBlocks throws
FetchThrows(t) ==
    /\ task[t].pc = "fetch"
    /\ task' = Errored(t, "fetchAllBlocks")
    /\ UNCHANGED <<pendingIssues, now, lastStored, replacedOlder>>
    /\ UNCHANGED <<snap, request>>

\* fetchAllBlocks resolves: the conversation is built and the model called
FetchResolve(t) ==
    /\ task[t].pc = "fetch"
    /\ task' = [task EXCEPT ![t].pc = "agent", ![t].nMessages = 1,
                            ![t].calls.agent = 1]
    /\ UNCHANGED <<pendingIssues, now, lastStored, replacedOlder>>
    /\ UNCHANGED <<snap, request>>

\* anthropic.messages.create throws
AgentThrows(t) ==
    /\ task[t].pc = "agent"
    /\ task' = Errored(t, "agent call")
    /\ UNCHANGED <<pendingIssues, now, lastStored, replacedOlder>>
    /\ UNCHANGED <<snap, request>>

\* textBlock?.text ?? fallback
AgentReply(response) ==
    IF HasText(response.content) THEN Reply("agent", "model text", Undefined)
    ELSE Reply("fallback", Undefined, Undefined)

\* mutant: the loop is left after any response
LoopContinues_Never(response) == FALSE

\* while (response.stop_reason === "tool_use")
LoopContinues(response) == response.stop_reason = "tool_use"

\* anthropic.messages.create resolves. While the loop continues, the content
\* is pushed as the assistant's turn and the round starts with the first
\* executeTool call; a content with no tool request gives an empty
\* tool-outcome turn and the next model call at once. Otherwise
\* generateReply returns the text.
AgentResolve(t, response) ==
    /\ task[t].pc = "agent"
    /\ UNCHANGED <<pendingIssues, now, lastStored, replacedOlder>>
    /\ IF LoopContinues(response)
       THEN /\ task[t].round < MaxRounds
            /\ LET todo == SkipToToolUse(response.content)
                   started == [task[t] EXCEPT
                                  !.round = @ + 1,
                                  !.stop_reason = response.stop_reason,
                                  !.content = response.content,
                                  !.blocks = todo,
                                  !.toolResults = <<>>]
               IN  IF todo = <<>>
                   THEN task' = [task EXCEPT ![t] =
                            [started EXCEPT !.nMessages = @ + 2,
                                            !.calls.agent = @ + 1]]
                   ELSE task' = [task EXCEPT ![t] =
                            [started EXCEPT !.pc = "tools",
                                            !.nMessages = @ + 1,
                                            !.calls.tool = @ + 1]]
       ELSE task' = [task EXCEPT ![t].pc = "reply",
                                 ![t].stop_reason = response.stop_reason,
                                 ![t].replyText = AgentReply(response)]
    /\ UNCHANGED <<snap, request>>

\* appendBlocks, updateBlock, deleteBlock: the HTTP requests issued, each
\* with the store's answer. fetch rejects only when there is no response;
\* no response status is looked at. updateBlock reads the block with a GET,
\* then patches it; r1 and r2 are the store's answers to the first and the
\* second request.
appendBlocks(r1) == <<<<"PATCH children", r1>>>>

updateBlock(r1, r2) ==
    IF r1 = "throws" THEN <<<<"GET", r1>>>>
    ELSE <<<<"GET", r1>>, <<"PATCH", r2>>>>

deleteBlock(r1) == <<<<"DELETE", r1>>>>

\* the call rejected: its last request got no response
Rejected(http) == http # <<>> /\ http[Len(http)][2] = "throws"

\* executeTool: the string it returns (the success message with the page
\* URL, the caught error, or the unknown-tool message) and, for the record,
\* the requests the call issued
executeTool(name, r1, r2) ==
    LET http == CASE name = "append_to_page" -> appendBlocks(r1)
                  [] name = "update_block" -> updateBlock(r1, r2)
                  [] name = "delete_block" -> deleteBlock(r1)
                  [] OTHER -> <<>>
    IN  [content |-> IF name \notin {"append_to_page", "update_block",
                                     "delete_block"}
                     THEN "unknown tool"
                     ELSE IF Rejected(http) THEN "error"
                     ELSE "done. page URL",
         http |-> http]

\* mutant: the result is put in front of the earlier ones
PushResult_Front(toolResults, block, executed) ==
    <<[type |-> "tool_result", tool_use_id |-> block.id,
       content |-> executed.content,
       name |-> block.name, http |-> executed.http]>> \o toolResults

\* toolResults.push({ type: "tool_result", tool_use_id: block.id,
\* content: result }); name and http record what was executed for it
PushResult(toolResults, block, executed) ==
    Append(toolResults,
           [type |-> "tool_result", tool_use_id |-> block.id,
            content |-> executed.content,
            name |-> block.name, http |-> executed.http])

\* executeTool returns for the current block: its result is pushed; then the
\* next tool request's tool is executed, or the results are appended as one
\* turn and the model is called again
ToolResolve(t, r1, r2) ==
    /\ task[t].pc = "tools"
    /\ UNCHANGED <<pendingIssues, now, lastStored, replacedOlder>>
    /\ LET block == Head(task[t].blocks)
           results == PushResult(task[t].toolResults, block,
                                 executeTool(block.name, r1, r2))
           rest == SkipToToolUse(Tail(task[t].blocks))
       IN  IF rest # <<>>
           THEN task' = [task EXCEPT ![t].blocks = rest,
                                     ![t].toolResults = results,
                                     ![t].calls.tool = @ + 1]
           ELSE task' = [task EXCEPT ![t].pc = "agent", ![t].blocks = rest,
                                     ![t].toolResults = results,
                                     ![t].nMessages = @ + 1,
                                     ![t].calls.agent = @ + 1]
    /\ UNCHANGED <<snap, request>>

\* ------------------------------------------------- handler, lines 440-446
\* mutant: the reply is dispatched a second time
SentAfterReply_Twice(sent, replyToken, ok) ==
    IF ok THEN sent \o <<replyToken, replyToken>> ELSE sent

\* the replies delivered once lineClient.replyMessage({ replyToken, ... })
\* has resolved (ok) or thrown (~ok)
SentAfterReply(sent, replyToken, ok) ==
    IF ok THEN Append(sent, replyToken) ELSE sent

\* lineClient.replyMessage resolves (the reply is sent) or throws (logged)
ReplyResolve(t, ok) ==
    /\ task[t].pc = "reply"
    /\ task' = Finished(t, IF ok THEN "replied" ELSE "error",
                        IF ok THEN "none" ELSE "replyMessage",
                        SentAfterReply(task[t].sent, task[t].replyToken, ok))
    /\ UNCHANGED <<pendingIssues, now, lastStored, replacedOlder>>
    /\ UNCHANGED <<snap, request>>

\* time passes
Tick ==
    /\ now < MaxTicks * TickMs
    /\ now' = now + TickMs
    /\ UNCHANGED <<pendingIssues, task, lastStored, replacedOlder>>
    /\ UNCHANGED <<snap, request>>

\* the slot a new callback takes: the first one whose callback has returned
FreeSlot(t) ==
    /\ task[t].pc \in {"idle", "done"}
    /\ \A s \in Tasks : s < t => task[s].pc \notin {"idle", "done"}

\* no callback is between two awaits
NoneInFlight == \A t \in Tasks : task[t].pc \in {"idle", "done"}

\* Events arrive one at a time: the next one is delivered once the previous
\* one's callback has finished.
Next ==
    \/ \E t \in Tasks, ev \in Events :
          NoneInFlight /\ FreeSlot(t) /\ Start(t, ev)
    \/ \E t \in Tasks, ok \in BOOLEAN : GithubResolve(t, ok)
    \/ \E t \in Tasks : JudgeThrows(t)
    \/ \E t \in Tasks, response \in ClassifierResponses : JudgeResolve(t, response)
    \/ \E t \in Tasks : FetchThrows(t)
    \/ \E t \in Tasks : FetchResolve(t)
    \/ \E t \in Tasks : AgentThrows(t)
    \/ \E t \in Tasks, response \in AgentResponses : AgentResolve(t, response)
    \/ \E t \in Tasks, r1, r2 \in PlainStoreResponses : ToolResolve(t, r1, r2)
    \/ \E t \in Tasks, ok \in BOOLEAN : ReplyResolve(t, ok)
    \/ Tick

Spec == Init /\ [][Next]_vars

\* ------------------------------------------- events handled concurrently
\* Promise.all(events.map(...)) starts every callback of a request at once,
\* and separate requests overlap too: callbacks interleave at their awaits.
\* The inputs are narrowed to one user, so that concurrent turns meet on one
\* entry of pendingIssues, and the clock stands still (nothing expires).
ConcurrentEvents ==
    [type : {"text"}, text : {MsgHai, MsgReport}, src : {"U1"},
     replyToken : {"rt1"}]

ConcurrentClassifierResponses ==
    [hasText : {TRUE}, wellFormed : {TRUE},
     value : {Judgment(TRUE, "Monohabu", "t1", "b1", "m1", "c1"), NotIssue}]

ConcurrentAgentResponses ==
    [stop_reason : {"end_turn"}, content : {<<TextBlock>>}]

NextConcurrent ==
    \/ \E t \in Tasks, ev \in ConcurrentEvents : FreeSlot(t) /\ Start(t, ev)
    \/ \E t \in Tasks, ok \in BOOLEAN : GithubResolve(t, ok)
    \/ \E t \in Tasks : JudgeThrows(t)
    \/ \E t \in Tasks, response \in ConcurrentClassifierResponses :
          JudgeResolve(t, response)
    \/ \E t \in Tasks : FetchThrows(t)
    \/ \E t \in Tasks : FetchResolve(t)
    \/ \E t \in Tasks : AgentThrows(t)
    \/ \E t \in Tasks, response \in ConcurrentAgentResponses :
          AgentResolve(t, response)
    \/ \E t \in Tasks, ok \in BOOLEAN : ReplyResolve(t, ok)

SpecConcurrent == Init /\ [][NextConcurrent]_vars

\* ------------------------------------------------------- the agent loop
\* The turns of one ordinary message (the classifier finds no issue), with
\* every shape of agent response and every answer of the document store.
AgentEvents ==
    [type : {"text"}, text : {MsgReport}, src : {"U1"}, replyToken : {"rt1"}]

\* The classifier finds no issue, or returns something that is no
\* classification object: a number, text that is no JSON, no text block.
AgentClassifierResponses ==
    [hasText : {TRUE}, wellFormed : {TRUE}, value : {NotIssue, JsonNumber}]
    \cup [hasText : BOOLEAN, wellFormed : {FALSE}, value : {NotIssue}]

\* contents that come with stop_reason "tool_use": tool requests alone,
\* with text between them, a name that is no tool, and no request at all
AgentLoopContents ==
    {<<ToolUse("tu1", "append_to_page")>>,
     <<TextBlock, ToolUse("tu1", "update_block"),
       TextBlock, ToolUse("tu2", "delete_block")>>,
     <<ToolUse("tu1", "delete_block"), ToolUse("tu2", "no_such_tool"),
       ToolUse("tu3", "append_to_page")>>,
     <<TextBlock>>}

AgentLoopResponses ==
    [stop_reason : {"tool_use"}, content : AgentLoopContents]
    \cup [stop_reason : {"end_turn"}, content : {<<>>, <<TextBlock>>}]
    \cup [stop_reason : {"max_tokens"},
          content : {<<TextBlock, ToolUse("tu1", "append_to_page")>>}]

NextAgent ==
    \/ \E t \in Tasks, ev \in AgentEvents :
          NoneInFlight /\ FreeSlot(t) /\ Start(t, ev)
    \/ \E t \in Tasks : JudgeThrows(t)
    \/ \E t \in Tasks, response \in AgentClassifierResponses :
          JudgeResolve(t, response)
    \/ \E t \in Tasks : FetchThrows(t)
    \/ \E t \in Tasks : FetchResolve(t)
    \/ \E t \in Tasks : AgentThrows(t)
    \/ \E t \in Tasks, response \in AgentLoopResponses :
          AgentResolve(t, response)
    \/ \E t \in Tasks, r1, r2 \in StoreResponses : ToolResolve(t, r1, r2)
    \/ \E t \in Tasks, ok \in BOOLEAN : ReplyResolve(t, ok)

SpecAgent == Init /\ [][NextAgent]_vars

\* ------------------------------------------- senders sharing "unknown"
\* Overlapping callbacks of a user with an identifier and of two senders
\* whose sources carry none: two of the senders report, the third reports,
\* approves or declines. The classifier finds an issue in every message, the
\* clock stands still and no call fails.
SharedEvents ==
    [type : {"text"}, text : {MsgReport}, src : {"U1", NoUserId},
     replyToken : {"rt1"}]
    \cup [type : {"text"}, text : {MsgHai, MsgIie, MsgReport},
          src : {OtherNoUserId}, replyToken : {"rt1"}]

SharedClassifierResponses ==
    [hasText : {TRUE}, wellFormed : {TRUE},
     value : {Judgment(TRUE, "Monohabu", "t1", "b1", "m1", "c1"),
              Judgment(TRUE, "Oshikatsu", "t2", "b2", "m2", "c2")}]

NextShared ==
    \/ \E t \in Tasks, ev \in SharedEvents : FreeSlot(t) /\ Start(t, ev)
    \/ \E t \in Tasks : GithubResolve(t, TRUE)
    \/ \E t \in Tasks, response \in SharedClassifierResponses :
          JudgeResolve(t, response)
    \/ \E t \in Tasks : ReplyResolve(t, TRUE)

SpecShared == Init /\ [][NextShared]_vars

\* ------------------------------------------------------ one inbound batch
\* The handler from the request to its response. events.map runs every
\* callback up to its first await, in the order of the events and with
\* nothing in between (MapEvent, one event at a time); then the callbacks
\* interleave at their awaits; Promise.all settles when all have returned.
BatchEvents ==
    [type : {"text"}, text : {MsgReport}, src : {"U1"}, replyToken : {"rt1"}]
    \cup OtherEvents

\* the batches of up to n events
Batches(n) == UNION {[1..k -> BatchEvents] : k \in 0..n}

Requests ==
    [method : {"GET", "PUT"}, validSignature : {TRUE}, events : {<<>>}]
    \cup [method : {"POST"}, validSignature : {FALSE}, events : {<<>>}]
    \cup [method : {"POST"}, validSignature : {TRUE},
          events : Batches(MaxInFlight)]

Responded(status) == [pc |-> "responded", events |-> <<>>, status |-> status]

\* the handler up to events.map: the early returns, or the batch to handle
Receive(req) ==
    /\ request.pc = "none"
    /\ request' =
           IF req.method = "GET" THEN Responded("200")
           ELSE IF req.method # "POST" THEN Responded("405")
           ELSE IF ~req.validSignature THEN Responded("401")
           ELSE [pc |-> "handling", events |-> req.events, status |-> "none"]
    /\ UNCHANGED <<pendingIssues, now, task, lastStored, replacedOlder, snap>>

\* events.map calls the callback of the next event
MapEvent(t) ==
    /\ request.pc = "handling"
    /\ t \in DOMAIN request.events
    /\ task[t].pc = "idle"
    /\ \A s \in 1..(t - 1) : task[s].pc # "idle"
    /\ Start(t, request.events[t])

\* events.map has returned: every callback is at its first await or over
Mapped ==
    /\ request.pc = "handling"
    /\ \A t \in DOMAIN request.events : task[t].pc # "idle"

\* mutant: the batch counts as settled once one callback has returned
Settled_Any(tasks, n) == n = 0 \/ \E t \in 1..n : tasks[t].pc = "done"

\* await Promise.all(...) resumes: every callback has returned (none can
\* reject: all their awaits are inside the try)
Settled(tasks, n) == \A t \in 1..n : tasks[t].pc = "done"

\* return res.status(200).json({ status: "ok" })
Respond ==
    /\ Mapped
    /\ Settled(task, Len(request.events))
    /\ request' = [request EXCEPT !.pc = "responded", !.status = "200"]
    /\ UNCHANGED <<pendingIssues, now, task, lastStored, replacedOlder, snap>>

NextBatch ==
    \/ \E req \in Requests : Receive(req)
    \/ \E t \in Tasks : MapEvent(t)
    \/ \E t \in Tasks : Mapped /\ JudgeThrows(t)
    \/ \E t \in Tasks, response \in AgentClassifierResponses :
          Mapped /\ JudgeResolve(t, response)
    \/ \E t \in Tasks : Mapped /\ FetchThrows(t)
    \/ \E t \in Tasks : Mapped /\ FetchResolve(t)
    \/ \E t \in Tasks : Mapped /\ AgentThrows(t)
    \/ \E t \in Tasks, response \in ConcurrentAgentResponses :
          Mapped /\ AgentResolve(t, response)
    \/ \E t \in Tasks, ok \in BOOLEAN : Mapped /\ ReplyResolve(t, ok)
    \/ Respond

SpecBatch == Init /\ [][NextBatch]_vars

\* --------------------------------------------------- the snapshot reader
\* fetchAllBlocks page by page, for every paging of the page's children
\* into at most MaxPages pages of at most MaxPageLen blocks.
Pagings ==
    UNION {[1..n -> 0..MaxPageLen] : n \in 1..MaxPages}

InitSnapshot ==
    /\ InitConversation
    /\ request = NoRequest
    /\ snap \in {[IdleSnapshot EXCEPT !.pc = "ready", !.pages = pageLens] :
                    pageLens \in Pagings}

\* fetchAllBlocks is called: blocks = [], cursor undefined, and the first
\* page is requested
SnapshotStart ==
    /\ snap.pc = "ready"
    /\ snap' = [snap EXCEPT !.pc = "fetch", !.cursor = NoCursor,
                            !.blocks = <<>>, !.requested = <<NoCursor>>]
    /\ UNCHANGED <<pendingIssues, now, task, lastStored, replacedOlder, request>>

\* the requested page arrives: its blocks are pushed and the cursor set;
\* while (cursor) requests the next page, or the blocks are returned
SnapshotPage ==
    /\ snap.pc = "fetch"
    /\ LET data == Serve(snap.pages, snap.cursor)
           cursor == NextCursor(data)
       IN  snap' = [snap EXCEPT
                       !.blocks = PushBlocks(@, data.results),
                       !.cursor = cursor,
                       !.pc = IF cursor # NoCursor THEN "fetch"
                              ELSE "returned",
                       !.requested = IF cursor # NoCursor
                                     THEN Append(@, cursor)
                                     ELSE @]
    /\ UNCHANGED <<pendingIssues, now, task, lastStored, replacedOlder, request>>

NextSnapshot == SnapshotStart \/ SnapshotPage

SpecSnapshot == InitSnapshot /\ [][NextSnapshot]_vars

\* ================================================================ claims
InFlight(t) == task[t].pc \notin {"idle", "done"}

Affirmative(t) == isYes(task[t].userMessage)

Negative(t) == isNo(task[t].userMessage)

IssueReplies == {"issue_created", "issue_failed"}

\* While createGitHubIssue is awaited, the call's repository, title and body
\* are those of the proposal last stored for the same user, and the message
\* being handled matches an affirmative pattern.
ApprovalPrecedesFiling ==
    \A t \in Tasks :
        task[t].pc = "github" =>
            /\ Affirmative(t)
            /\ lastStored[task[t].userId].present
            /\ task[t].filed = FilingCall(lastStored[task[t].userId])

\* C1: every issue-filing call is preceded, for the same user, by the storing
\* of a proposal with the same repository/title/body and then by an
\* affirmative message of that user, and the repository filed against is a
\* value of the Target Registry.
C1_FilingApprovedAndRegistered ==
    /\ ApprovalPrecedesFiling
    /\ \A t \in Tasks :
           task[t].pc = "github" => task[t].filed.repo \in RegistryValues

\* C2: a message that arrives when the stored proposal's expires_at has
\* passed makes no issue-filing call, whatever the message is.
C2_ExpiredNeverCommitted ==
    \A t \in Tasks :
        (InFlight(t) /\ task[t].expiredAtStart) =>
            /\ task[t].pc # "github"
            /\ task[t].calls.github = 0
            /\ ~task[t].filed.present

C2_Witness ==
    \E t \in Tasks :
        /\ task[t].pc = "judge"
        /\ Affirmative(t)
        /\ task[t].expiredAtStart
        /\ task[t].calls.github = 0

\* C3: an affirmative message that finds a stored, non-expired proposal makes
\* exactly one issue-filing call, with the stored repository, title and body,
\* and makes no other call; once the filing has resolved or thrown the user
\* has no pending proposal and the reply is the success or the error reply.
C3_CommitFilesOnceAndClears ==
    \A t \in Tasks :
        (/\ InFlight(t)
         /\ Affirmative(t)
         /\ task[t].atStart.present
         /\ ~task[t].expiredAtStart) =>
            /\ task[t].pc \in {"github", "reply"}
            /\ task[t].calls = [NoCalls EXCEPT !.github = 1]
            /\ task[t].filed = FilingCall(task[t].atStart)
            /\ task[t].pc = "reply" =>
                   /\ ~pendingIssues[task[t].userId].present
                   /\ task[t].replyText.kind \in IssueReplies

C3_Witness ==
    \E t \in Tasks :
        /\ task[t].pc = "reply"
        /\ Affirmative(t)
        /\ task[t].atStart.present
        /\ task[t].calls.github = 1
        /\ task[t].replyText.kind = "issue_failed"
        /\ ~pendingIssues[task[t].userId].present

\* C4: a message matching a negative pattern while a proposal is pending
\* deletes the proposal, is answered with the cancellation acknowledgment
\* and makes no call at all, also when it holds an affirmative token.
C4_NegativeAlwaysCancels ==
    \A t \in Tasks :
        (InFlight(t) /\ Negative(t) /\ task[t].atStart.present) =>
            /\ task[t].pc = "reply"
            /\ task[t].replyText = CancelReply
            /\ task[t].calls = NoCalls
            /\ ~pendingIssues[task[t].userId].present

\* C5 as stated: a message matching neither pattern leaves the stored
\* proposal as it was, whatever the classifier returns.
C5_NeitherLeavesProposal ==
    \A t \in Tasks :
        (/\ InFlight(t)
         /\ ~Affirmative(t)
         /\ ~Negative(t)
         /\ task[t].atStart.present) =>
            pendingIssues[task[t].userId] = task[t].atStart

\* C5 as amended: a message matching neither pattern is classified, never
\* files and is never answered as a confirmation reply; the stored proposal
\* stays as it was unless the classifier's result is actionable and its
\* target lookup yields a repository, and then it is the new proposal.
C5_NeitherLeavesOrReplaces ==
    \A t \in Tasks :
        (/\ InFlight(t)
         /\ ~Affirmative(t)
         /\ ~Negative(t)
         /\ task[t].atStart.present) =>
            /\ task[t].calls.judge = 1
            /\ task[t].calls.github = 0
            /\ task[t].replyText.kind \notin IssueReplies \cup {"cancelled"}
            /\ task[t].stored.present <=>
                   /\ task[t].judgment.is_issue
                   /\ RepoLookup(task[t].judgment.app_name) # Undefined
            /\ pendingIssues[task[t].userId] =
                   IF task[t].stored.present THEN task[t].stored
                   ELSE task[t].atStart

C5_Witness ==
    \E t \in Tasks :
        /\ InFlight(t)
        /\ ~Affirmative(t)
        /\ ~Negative(t)
        /\ task[t].atStart.present
        /\ task[t].stored.present
        /\ task[t].stored # task[t].atStart
        /\ pendingIssues[task[t].userId] = task[t].stored

\* C6: the map holds one entry per user; a proposal stored for a user who has
\* one replaces it entirely, and a filing call carries the repository, title
\* and body of the proposal stored last, not of one it replaced.
C6_NewestProposalWins ==
    \A t \in Tasks :
        /\ (task[t].pc = "reply" /\ task[t].stored.present) =>
               /\ pendingIssues[task[t].userId] = task[t].stored
               /\ lastStored[task[t].userId] = task[t].stored
        /\ task[t].pc = "github" =>
               /\ task[t].pending = lastStored[task[t].userId]
               /\ task[t].filed = FilingCall(lastStored[task[t].userId])

C6_Witness ==
    \E t \in Tasks :
        /\ task[t].pc = "github"
        /\ replacedOlder[task[t].userId]
        /\ task[t].filed = FilingCall(lastStored[task[t].userId])

\* C7: an affirmative message that finds an expired proposal deletes it,
\* files nothing and goes on, in the same turn, to the classifier and from
\* there to a new proposal or to the agent loop.
C7_ExpiredAffirmativeFallsThrough ==
    \A t \in Tasks :
        (InFlight(t) /\ Affirmative(t) /\ task[t].expiredAtStart) =>
            /\ task[t].pc \in {"judge", "fetch", "agent", "tools", "reply"}
            /\ task[t].calls.judge = 1
            /\ task[t].calls.github = 0
            /\ task[t].pc = "judge" => ~pendingIssues[task[t].userId].present
            /\ task[t].pc = "reply" =>
                   task[t].replyText.kind \in {"confirm", "agent", "fallback"}

C7_Witness ==
    \E t \in Tasks :
        /\ task[t].pc = "fetch"
        /\ Affirmative(t)
        /\ task[t].expiredAtStart
        /\ ~pendingIssues[task[t].userId].present

\* C8: a negative message that arrives after the stored proposal's
\* expires_at is handled as an ordinary message (classified), not answered
\* with the cancellation acknowledgment.
C8_ExpiredNegativeIsOrdinary ==
    \A t \in Tasks :
        (InFlight(t) /\ Negative(t) /\ task[t].expiredAtStart) =>
            /\ task[t].replyText.kind # "cancelled"
            /\ task[t].calls.judge = 1

\* C9: when the classifier's result is actionable and its target name is a
\* key of the Target Registry, the step that takes the result stores, under
\* the user's identifier only, a proposal with the result's fields, the
\* registry's repository and expires_at = current time + 5 minutes, returns
\* confirm_message as the reply, and the turn has made no call but the
\* classifier's.
C9_ProposeStoresAndConfirms ==
    [][\A t \in Tasks :
          (/\ task[t].pc = "judge"
           /\ task'[t].pc \notin {"judge", "done"}
           /\ task'[t].judgment.is_issue
           /\ task'[t].judgment.app_name \in DOMAIN APP_REPO_MAP) =>
              LET j == task'[t].judgment
                  u == task[t].userId
                  p == pendingIssues'[u]
              IN  /\ task'[t].pc = "reply"
                  /\ p.present
                  /\ p.app_name = j.app_name
                  /\ p.repo = APP_REPO_MAP[j.app_name]
                  /\ p.issue_title = j.issue_title
                  /\ p.issue_body = j.issue_body
                  /\ p.manus_instruction = j.manus_instruction
                  /\ p.expires_at = now + 5 * 60 * 1000
                  /\ task'[t].replyText.kind = "confirm"
                  /\ task'[t].replyText.text = j.confirm_message
                  /\ task'[t].calls = [NoCalls EXCEPT !.judge = 1]
                  /\ \A v \in UserIds \ {u} : pendingIssues'[v] = pendingIssues[v]
      ]_vars

C9_Witness ==
    \E t \in Tasks :
        /\ task[t].pc = "reply"
        /\ task[t].judgment.app_name \in DOMAIN APP_REPO_MAP
        /\ task[t].replyText.kind = "confirm"
        /\ pendingIssues[task[t].userId] = task[t].stored
        /\ task[t].stored.expires_at = now + PENDING_TTL_MS

\* C10: when the classifier's result is actionable but its target name is no
\* key of the Target Registry, no proposal is stored and the message goes to
\* the agent loop (snapshot fetch, then model call).
C10_UnlistedTargetNeverStored ==
    \A t \in Tasks :
        (/\ InFlight(t)
         /\ task[t].judgment.is_issue
         /\ task[t].judgment.app_name \notin DOMAIN APP_REPO_MAP) =>
            /\ ~task[t].stored.present
            /\ task[t].replyText.kind # "confirm"
            /\ task[t].calls.fetch = 1
            /\ task[t].pc \in {"agent", "tools", "reply"} => task[t].calls.agent >= 1

\* the classifier responses whose text is no well-formed classification
\* object: no text block, text that does not parse, text that parses to
\* something that is no object
NotClassification ==
    {r \in ClassifierResponses \cup AgentClassifierResponses :
        ~r.hasText \/ ~r.wellFormed \/ r.value.json # "object"}

\* C11: whatever text that is no well-formed classification object the
\* classifier returns, the step that takes it raises no error, stores no
\* proposal and goes on to the agent loop (the snapshot fetch).
C11_BadClassificationAbsorbed ==
    [][\A t \in Tasks, r \in NotClassification :
          JudgeResolve(t, r) =>
              /\ task'[t].pc = "fetch"
              /\ task'[t].calls.fetch = 1
              /\ ~task'[t].stored.present
              /\ pendingIssues' = pendingIssues
      ]_vars

\* what does hold: every such text except the JSON literal null is absorbed
\* (a number, like a string or an array, has no is_issue member)
BadClassificationAbsorbedUnlessNull ==
    [][\A t \in Tasks, r \in NotClassification :
          (r.hasText /\ r.wellFormed /\ r.value = JsonNull) \/
          (JudgeResolve(t, r) =>
              /\ task'[t].pc = "fetch"
              /\ task'[t].calls.fetch = 1
              /\ ~task'[t].stored.present
              /\ pendingIssues' = pendingIssues)
      ]_vars

\* the turn of a text message whose classification was the literal null
\* ended in the handler's catch with nothing sent
NullClassificationDropped ==
    \E t \in Tasks :
        /\ task[t].pc = "done"
        /\ task[t].error = "TypeError"
        /\ task[t].sent = <<>>

\* the errors the handler's catch can log for a text message
DispatchErrors == {"replyMessage"}

TurnErrors == {"classifier call", "TypeError", "fetchAllBlocks", "agent call"}

\* C12 as stated: at most one reply per event, sent with the event's token,
\* none for a non-text event, and a text message whose callback has returned
\* has no reply only when the reply dispatch threw.
C12_UnrepliedOnlyOnDispatchFailure ==
    \A t \in Tasks :
        /\ Len(task[t].sent) <= 1
        /\ \A i \in DOMAIN task[t].sent : task[t].sent[i] = task[t].replyToken
        /\ (task[t].pc = "done" /\ task[t].type # "text") => task[t].sent = <<>>
        /\ (task[t].pc = "done" /\ task[t].type = "text" /\ task[t].sent = <<>>)
               => task[t].error \in DispatchErrors

\* C12, amended: at most one reply per event, sent with the event's token and
\* only as the callback's last step; none for a non-text event; a text
\* message whose callback has returned has no reply exactly when an error
\* was logged, which is the reply dispatch throwing, a model call (classifier
\* or agent) failing, the snapshot fetch failing, or the classifier's text
\* being the literal null.
C12_OneReplyUnlessTurnThrows ==
    \A t \in Tasks :
        /\ Len(task[t].sent) <= 1
        /\ \A i \in DOMAIN task[t].sent : task[t].sent[i] = task[t].replyToken
        /\ InFlight(t) => task[t].sent = <<>>
        /\ (task[t].pc = "done" /\ task[t].type # "text") =>
               task[t].sent = <<>> /\ task[t].outcome = "skipped"
        /\ (task[t].pc = "done" /\ task[t].type = "text") =>
               /\ task[t].error \in {"none"} \cup DispatchErrors \cup TurnErrors
               /\ (task[t].sent = <<>>) <=> (task[t].error # "none")
               /\ (task[t].sent # <<>>) <=> (task[t].outcome = "replied")

\* the callback of a text message has returned after its agent call failed:
\* the failure was logged and nothing was sent with the message's token
C12_Witness ==
    \E t \in Tasks :
        /\ task[t].pc = "done"
        /\ task[t].type = "text"
        /\ task[t].replyToken = "rt2"
        /\ task[t].error = "agent call"
        /\ task[t].calls.agent >= 1
        /\ task[t].sent = <<>>

\* the callback of a text message has returned after its one reply, sent
\* with the message's own token
RepliedOnceWithOwnToken ==
    \E t \in Tasks :
        /\ task[t].pc = "done"
        /\ task[t].type = "text"
        /\ task[t].replyToken = "rt2"
        /\ task[t].sent = <<"rt2">>

\* the identifiers, and the names, of a sequence of requests or results
Ids(blocks) == [i \in DOMAIN blocks |-> blocks[i].id]

ResultIds(results) == [i \in DOMAIN results |-> results[i].tool_use_id]

Names(blocks) == [i \in DOMAIN blocks |-> blocks[i].name]

\* the first n elements of a sequence
Prefix(seq, n) == SubSeq(seq, 1, n)

\* C13: in each round every tool request of the model's content is executed
\* once, one at a time in the order emitted, each giving one result tagged
\* with that request's identifier; the results go into one tool-outcome turn
\* and the next model call is made only after all of them.
C13_RoundExecutesRequestsInOrder ==
    \A t \in Tasks :
        LET requested == ToolUses(task[t].content)
            results == task[t].toolResults
            pending == ToolUses(task[t].blocks)
        IN  /\ task[t].pc = "tools" =>
                /\ pending # <<>>
                /\ Len(results) + Len(pending) = Len(requested)
                /\ ResultIds(results) = Prefix(Ids(requested), Len(results))
                /\ Names(results) = Prefix(Names(requested), Len(results))
                /\ Ids(pending) =
                       SubSeq(Ids(requested), Len(results) + 1, Len(requested))
                /\ task[t].calls.agent = task[t].round
                /\ task[t].nMessages = 2 * task[t].round
                /\ task[t].round = 1 => task[t].calls.tool = Len(results) + 1
            /\ (task[t].pc = "agent" /\ task[t].round > 0) =>
                /\ pending = <<>>
                /\ ResultIds(results) = Ids(requested)
                /\ Names(results) = Names(requested)
                /\ task[t].calls.agent = task[t].round + 1
                /\ task[t].nMessages = 2 * task[t].round + 1
                /\ task[t].round = 1 => task[t].calls.tool = Len(requested)

\* a round of three requests is over: three results in the model's order,
\* and the model has been called again
C13_Witness ==
    \E t \in Tasks :
        /\ task[t].pc = "agent"
        /\ task[t].round = 1
        /\ ResultIds(task[t].toolResults) = <<"tu1", "tu2", "tu3">>
        /\ task[t].calls.tool = 3

\* a mutator call failed: the store answered one of its requests with
\* something other than success
Failed(http) == \E i \in DOMAIN http : http[i][2] # "ok"

\* C14: a mutator failure in a round (network, not-found, permission) does
\* not abort the loop or the turn: the failed operation's result is the
\* error string, the remaining requests still run and the model is called
\* again.
C14_MutatorFailureFedBackAsError ==
    \A t \in Tasks :
        /\ \A i \in DOMAIN task[t].toolResults :
               Failed(task[t].toolResults[i].http) =>
                   /\ task[t].toolResults[i].content = "error"
                   /\ task[t].pc \in {"tools", "agent", "reply"}

\* what does hold: no answer of the store ends the round or the turn, and a
\* request that got no response at all is fed back as the error string
MutatorFailureNeverAborts ==
    \A t \in Tasks :
        /\ \A i \in DOMAIN task[t].toolResults :
               /\ task[t].pc \in {"tools", "agent", "reply"}
               /\ Rejected(task[t].toolResults[i].http) =>
                      task[t].toolResults[i].content = "error"
        /\ task[t].pc = "tools" =>
               Len(task[t].toolResults) < Len(ToolUses(task[t].content))

\* an append answered with 403 was reported to the model as done
PermissionFailureReportedDone ==
    \E t \in Tasks :
        /\ task[t].pc = "agent"
        /\ \E i \in DOMAIN task[t].toolResults :
               /\ task[t].toolResults[i].name = "append_to_page"
               /\ task[t].toolResults[i].http = <<<<"PATCH children", "forbidden">>>>
               /\ task[t].toolResults[i].content = "done. page URL"

\* C15: when the store reports that the targeted unit does not exist, delete
\* and replace fail: the result fed back for the request is the error
\* string, never the success message, and replace issues no patch after a
\* read that found the unit missing.
C15_MissingUnitFailsMutation ==
    \A t \in Tasks :
        \A i \in DOMAIN task[t].toolResults :
            LET result == task[t].toolResults[i]
            IN  (/\ result.name \in {"update_block", "delete_block"}
                 /\ result.http # <<>>
                 /\ result.http[1][2] = "not_found")
                => /\ result.content = "error"
                   /\ Len(result.http) = 1

\* a replace whose read found the unit missing went on to patch it and was
\* reported to the model as done
MissingUnitPatchedAndReportedDone ==
    \E t \in Tasks :
        \E i \in DOMAIN task[t].toolResults :
            /\ task[t].toolResults[i].name = "update_block"
            /\ task[t].toolResults[i].http[1] = <<"GET", "not_found">>
            /\ Len(task[t].toolResults[i].http) = 2
            /\ task[t].toolResults[i].content = "done. page URL"

\* the errors of a failed model call
ModelCallErrors == {"classifier call", "agent call"}

\* what C16 says of every reachable state
ModelCallFailureLeavesNothingSent ==
    \A t \in Tasks :
        task[t].error \in ModelCallErrors =>
            /\ task[t].pc = "done"
            /\ task[t].outcome = "error"
            /\ task[t].sent = <<>>

\* C16: if a model call of a turn fails (the classifier call, the first
\* agent call, or a re-invocation after a round of mutations), the turn is
\* aborted and no reply of any kind is sent for the message.
C16_ModelCallFailureAbortsUnreplied ==
    /\ []ModelCallFailureLeavesNothingSent
    /\ [][\A t \in Tasks :
              (JudgeThrows(t) \/ AgentThrows(t)) =>
                  /\ task'[t].pc = "done"
                  /\ task'[t].error \in ModelCallErrors
                  /\ task'[t].sent = <<>>
         ]_vars

\* the re-invocation after a round of mutations failed: the turn is over
\* with the failure logged and nothing sent
C16_Witness ==
    \E t \in Tasks :
        /\ task[t].pc = "done"
        /\ task[t].error = "agent call"
        /\ task[t].round >= 1
        /\ task[t].calls.tool >= 1
        /\ task[t].sent = <<>>

\* the turn of an affirmative or negative message that found no stored
\* proposal for its user
PatternWithoutProposal(t) ==
    /\ InFlight(t)
    /\ ~task[t].atStart.present
    /\ Affirmative(t) \/ Negative(t)

\* what C17 says of every reachable state
PatternWithoutProposalClassified ==
    \A t \in Tasks :
        PatternWithoutProposal(t) =>
            /\ task[t].pc \in {"judge", "fetch", "agent", "tools", "reply"}
            /\ task[t].calls.judge = 1
            /\ task[t].calls.github = 0
            /\ task[t].replyText.kind \notin IssueReplies \cup {"cancelled"}
            /\ (task[t].pc = "reply" /\ ~task[t].judgment.is_issue) =>
                   /\ task[t].calls.fetch = 1
                   /\ task[t].calls.agent >= 1
                   /\ task[t].replyText.kind \in {"agent", "fallback"}

\* C17: an affirmative or negative message from a user with no stored
\* proposal is handled as an ordinary message: the classifier is called, no
\* issue is filed, no cancellation is acknowledged and no proposal is
\* deleted; when the classifier finds no issue the agent loop runs in full
\* (one snapshot fetch, then at least one model call) and its answer is the
\* reply.
C17_PatternWithoutProposalIsOrdinary ==
    /\ []PatternWithoutProposalClassified
    /\ [][(\E t \in Tasks : PatternWithoutProposal(t)) =>
              \A u \in UserIds :
                  pendingIssues[u].present => pendingIssues'[u].present
         ]_vars
    /\ [][\A t \in Tasks :
              (/\ ~InFlight(t)
               /\ task'[t].pc \notin {"idle", "done"}
               /\ ~pendingIssues[task'[t].userId].present
               /\ isYes(task'[t].userMessage) \/ isNo(task'[t].userMessage))
              => /\ task'[t].pc = "judge"
                 /\ task'[t].calls.judge = 1
                 /\ pendingIssues' = pendingIssues
         ]_vars

\* "はい" with nothing stored, classified as no issue: the agent loop ran
\* and its answer is about to be sent
C17_Witness ==
    \E t \in Tasks :
        /\ task[t].pc = "reply"
        /\ task[t].userMessage = MsgHai
        /\ ~task[t].atStart.present
        /\ ~task[t].judgment.is_issue
        /\ task[t].calls.fetch = 1
        /\ task[t].calls.agent >= 1
        /\ task[t].replyText.kind = "agent"

\* all blocks of the page in the store's order, as the reader renders them
WholePage(pageLens) ==
    [i \in 1..SumLens(pageLens, Len(pageLens)) |-> blockToText(StoredBlock(i))]

\* the cursors of a full read: none for the first page, then each next page
AllCursors(pageLens) ==
    [p \in 1..Len(pageLens) |-> IF p = 1 THEN NoCursor ELSE p]

\* C18: for every paging served under the has_more / next_cursor contract,
\* the reader requests pages until the store reports no continuation and
\* returns the units of all pages, in the store's order, none skipped or
\* duplicated: as many as the page lengths sum to.
C18_SnapshotReadsEveryPage ==
    /\ snap.pc = "returned" =>
           /\ snap.blocks = WholePage(snap.pages)
           /\ Len(snap.blocks) = SumLens(snap.pages, Len(snap.pages))
           /\ snap.requested = AllCursors(snap.pages)
    /\ snap.pc = "fetch" =>
           /\ Len(snap.requested) <= Len(snap.pages)
           /\ snap.requested = Prefix(AllCursors(snap.pages), Len(snap.requested))
           /\ snap.blocks =
                  Prefix(WholePage(snap.pages),
                         SumLens(snap.pages, Len(snap.requested) - 1))

\* a read of three pages, the second one empty, has returned three units
C18_Witness ==
    /\ snap.pc = "returned"
    /\ snap.pages = <<2, 0, 1>>
    /\ Len(snap.blocks) = 3
    /\ snap.requested = <<NoCursor, 2, 3>>

\* what C19 says of every reachable state
RoundsGrowConversationUnreplied ==
    \A t \in Tasks :
        /\ task[t].pc \in {"agent", "tools"} =>
               /\ task[t].sent = <<>>
               /\ task[t].replyText = NoReply
               /\ task[t].round > 0 => task[t].stop_reason = "tool_use"
        /\ task[t].pc = "agent" =>
               task[t].nMessages = 1 + 2 * task[t].round
        /\ (task[t].pc = "reply" /\ task[t].calls.agent >= 1) =>
               /\ task[t].stop_reason \notin {"tool_use", "none"}
               /\ task[t].calls.agent = task[t].round + 1
               /\ task[t].nMessages = 1 + 2 * task[t].round

\* C19: the loop has no round bound of its own. Whatever the round, a
\* response with stop_reason "tool_use" starts another round and sends
\* nothing, and any other stop reason ends the loop with a reply to send;
\* each round adds two entries to the conversation (the model's turn and one
\* tool-outcome turn); a reply is produced only after a response whose stop
\* reason is not "tool_use".
C19_LoopEndsOnlyWhenModelStops ==
    /\ []RoundsGrowConversationUnreplied
    /\ [][\A t \in Tasks, response \in AgentLoopResponses :
              AgentResolve(t, response) =>
                  IF response.stop_reason = "tool_use"
                  THEN /\ task'[t].pc \in {"tools", "agent"}
                       /\ task'[t].round = task[t].round + 1
                  ELSE /\ task'[t].pc = "reply"
                       /\ task'[t].round = task[t].round
         ]_vars

\* the model asked for tools in every round so far: the turn is in its
\* MaxRounds-th round, five entries and more in the conversation, no reply
C19_Witness ==
    \E t \in Tasks :
        /\ task[t].pc = "agent"
        /\ task[t].round = MaxRounds
        /\ task[t].round >= 2
        /\ task[t].nMessages = 1 + 2 * MaxRounds
        /\ task[t].stop_reason = "tool_use"
        /\ task[t].sent = <<>>

\* C20: two messages of one user handled concurrently can race on the
\* user's entry. The step that calls createGitHubIssue leaves the entry in
\* place, and an entry is deleted only by a step in which a filing call of
\* that user resolves (or by the cancel and expiry branches): so a second
\* affirmative message that starts while the first one's call is awaited
\* reads the same proposal and files it again.
C20_EntryKeptWhileFilingAwaited ==
    /\ [][\A t \in Tasks :
              (~InFlight(t) /\ task'[t].pc = "github") =>
                  /\ pendingIssues' = pendingIssues
                  /\ pendingIssues[task'[t].userId].present
                  /\ task'[t].filed = FilingCall(pendingIssues[task'[t].userId])
         ]_vars
    /\ [][\A u \in UserIds :
              (pendingIssues[u].present /\ ~pendingIssues'[u].present) =>
                  \E t \in Tasks :
                      /\ task'[t].userId = u
                      /\ \/ task[t].pc = "github" /\ task'[t].pc = "reply"
                         \/ /\ ~InFlight(t)
                            /\ task'[t].replyText.kind = "cancelled"
                         \/ ~InFlight(t) /\ task'[t].expiredAtStart
         ]_vars

\* two filing calls for the one stored proposal of a user are awaited at
\* the same time
C20_Witness ==
    /\ task[1].pc = "github"
    /\ task[2].pc = "github"
    /\ task[1].userId = task[2].userId
    /\ pendingIssues[task[1].userId].present
    /\ task[1].filed = FilingCall(pendingIssues[task[1].userId])
    /\ task[2].filed = task[1].filed
    /\ task[1].atStart = task[2].atStart

\* what C21 says of every reachable state
RespondedAfterAllHandled ==
    (request.pc = "responded" /\ request.status = "200") =>
        \A t \in DOMAIN request.events :
            /\ task[t].pc = "done"
            /\ task[t].type = request.events[t].type
            /\ task[t].type = "text" =>
                   \/ task[t].outcome = "replied" /\ Len(task[t].sent) = 1
                   \/ task[t].outcome = "error" /\ task[t].sent = <<>>
            /\ task[t].type # "text" => task[t].outcome = "skipped"

\* C21: the events of one batch are handled concurrently and independently.
\* The step in which one event's handling ends in an error changes nothing
\* of any other event's handling, of the store or of the request; and the
\* success response is returned only when every event of the batch has been
\* handled: each text event answered once or its error logged, each other
\* event skipped.
C21_BatchHandledIndependently ==
    /\ []RespondedAfterAllHandled
    /\ [][\A t \in Tasks :
              (/\ InFlight(t)
               /\ task'[t].pc = "done"
               /\ task'[t].outcome = "error")
              => /\ \A s \in Tasks \ {t} : task'[s] = task[s]
                 /\ pendingIssues' = pendingIssues
                 /\ request' = request
         ]_vars
    /\ [][request.pc = "handling" /\ request'.pc = "responded" =>
              \A t \in DOMAIN request.events : task[t].pc = "done"
         ]_vars

\* a batch of two text events has been answered with 200: the first event's
\* agent call failed and was logged, the second event got its reply
C21_Witness ==
    /\ request.pc = "responded"
    /\ request.status = "200"
    /\ Len(request.events) = 2
    /\ task[1].error = "agent call" /\ task[1].sent = <<>>
    /\ task[2].outcome = "replied" /\ task[2].sent = <<"rt1">>

\* what C22 says of every reachable state
IdlessSendersKeyedUnknown ==
    \A t \in Tasks :
        InFlight(t) =>
            /\ task[t].src \in IdlessSources => task[t].userId = "unknown"
            /\ task[t].src \notin IdlessSources => task[t].userId = task[t].src

\* C22: handling a message keyed to user u never creates, changes or deletes
\* the stored proposal of another key, under every interleaving: whenever
\* the entry of a key changes, the step is one of a callback keyed to it.
\* And every sender whose source carries no identifier is keyed to
\* "unknown", so such senders share one entry.
C22_OnlyOwnKeyTouched ==
    /\ []IdlessSendersKeyedUnknown
    /\ [][\A v \in UserIds :
              pendingIssues'[v] # pendingIssues[v] =>
                  \E t \in Tasks :
                      /\ task'[t] # task[t]
                      /\ task'[t].userId = v
                      /\ \A s \in Tasks \ {t} : task'[s] = task[s]
         ]_vars

\* one sender without identifier has just created a proposal (the
\* confirmation request is about to be sent to them) and another sender
\* without identifier has said yes: that proposal is being filed
C22_Witness ==
    \E t1, t2 \in Tasks :
        /\ task[t1].src = NoUserId
        /\ task[t1].pc = "reply"
        /\ task[t1].stored.present
        /\ task[t2].src = OtherNoUserId
        /\ task[t2].pc = "github"
        /\ Affirmative(t2)
        /\ task[t2].filed = FilingCall(task[t1].stored)

\* likewise a proposal one of them created is cancelled by the other
SharedProposalCancelledByOther ==
    \E t1, t2 \in Tasks :
        /\ task[t1].src = NoUserId
        /\ task[t1].pc = "reply"
        /\ task[t1].stored.present
        /\ task[t2].src = OtherNoUserId
        /\ task[t2].pc = "reply"
        /\ task[t2].replyText.kind = "cancelled"
        /\ task[t2].atStart = task[t1].stored
        /\ ~pendingIssues["unknown"].present

\* and a proposal one of them created is overwritten by the other's
SharedProposalOverwrittenByOther ==
    \E t1, t2 \in Tasks :
        /\ task[t1].src = NoUserId
        /\ task[t1].pc = "reply"
        /\ task[t1].stored.present
        /\ task[t2].src = OtherNoUserId
        /\ task[t2].pc = "reply"
        /\ task[t2].stored.present
        /\ task[t2].atStart = task[t1].stored
        /\ task[t2].stored # task[t1].stored
        /\ pendingIssues["unknown"] = task[t2].stored

=============================================================================
